---- MODULE Spec2Model ----
(***************************************************************************)
(* A model of cpp_utils.h: the range() helpers over boost::irange, the     *)
(* std::get / std::tuple_size shims for boost cons tuples, remove_if and   *)
(* make_string.  Integer types are scaled down: every type keeps its       *)
(* signedness and its rank, and its width is a small number of bits.       *)
(***************************************************************************)
EXTENDS Integers, Sequences, FiniteSets, TLC

VARIABLES
    args,   \* the arguments of the call of range()
    build,  \* the build that runs the call
    rng,    \* the range object the call returned
    out,    \* what one whole loop over rng visited
    cur,    \* the iterators of the loops running over rng
    tup,    \* the boost tuple t, a chain of cons cells
    arity,  \* the number of elements t was made from
    used,   \* the last use of the tuple shims on t, and what it gave
    cont,   \* remove_if: the container, its nodes in iteration order
    pred,   \* remove_if: the values the predicate holds of
    rit,    \* remove_if: the loop's iterator, a node or the end
    pc,     \* remove_if: where the call is
    evals,  \* remove_if: how often pred was called on each original node
    orig,   \* remove_if: the container as it was passed
    ss,       \* make_string: the text in the string stream
    streamed, \* make_string: the values streamed so far
    str,      \* make_string: the last conversion to std::string
    tmp,      \* make_string: the temporary string of the last conversion
              \* to const char*
    cptr,     \* make_string: the pointer that conversion returned
    seen      \* make_string: what the caller read through the pointer

rangeVars == <<args, build, rng, out, cur>>

tupleVars == <<tup, arity, used>>

removeVars == <<cont, pred, rit, pc, evals, orig>>

stringVars == <<ss, streamed, str, tmp, cptr, seen>>

vars == <<rangeVars, tupleVars, removeVars, stringVars>>

notRange == <<tupleVars, removeVars, stringVars>>

notTuple == <<rangeVars, removeVars, stringVars>>

notRemove == <<rangeVars, tupleVars, stringVars>>

notString == <<rangeVars, tupleVars, removeVars>>

(***************************************************************************)
(* Integer types.                                                          *)
(***************************************************************************)
\* Width of signed char / unsigned char, in bits (scaled down).
CharBits == 2
\* Width of int / unsigned int, in bits (scaled down).
IntBits == 4
\* Width of long / unsigned long / std::ptrdiff_t, in bits (scaled down).
LongBits == 5

Types == {"schar", "uchar", "int", "uint", "long", "ulong"}

IsSigned(t) == t \in {"schar", "int", "long"}

Rank(t) == CASE t \in {"schar", "uchar"} -> 1
             [] t \in {"int", "uint"} -> 2
             [] OTHER -> 3

Bits(t) == CASE Rank(t) = 1 -> CharBits
             [] Rank(t) = 2 -> IntBits
             [] OTHER -> LongBits

MinOf(t) == IF IsSigned(t) THEN -(2 ^ (Bits(t) - 1)) ELSE 0

MaxOf(t) == IF IsSigned(t) THEN 2 ^ (Bits(t) - 1) - 1 ELSE 2 ^ Bits(t) - 1

ValuesOf(t) == MinOf(t) .. MaxOf(t)

Fits(t, v) == MinOf(t) <= v /\ v <= MaxOf(t)

\* std::ptrdiff_t, the difference_type of boost's integer iterators.
PtrdiffT == "long"

\* V, the type of the step argument: the template's default, int.
StepT == "int"

\* An integral conversion to type t: modulo 2^Bits(t).
Convert(t, v) ==
    LET m == 2 ^ Bits(t)
        r == v % m
    IN  IF IsSigned(t) /\ r > MaxOf(t) THEN r - m ELSE r

\* The unsigned type of the same rank.
MakeUnsigned(t) == CASE Rank(t) = 1 -> "uchar"
                     [] Rank(t) = 2 -> "uint"
                     [] OTHER -> "ulong"

\* Integral promotion: a type below int becomes int when int holds all its
\* values, unsigned int otherwise.
Promote(t) ==
    IF Rank(t) >= 2 THEN t
    ELSE IF MinOf("int") <= MinOf(t) /\ MaxOf(t) <= MaxOf("int") THEN "int"
    ELSE "uint"

\* The usual arithmetic conversions of two integer types.
UsualArithmetic(a, b) ==
    LET pa == Promote(a)
        pb == Promote(b)
        u == IF IsSigned(pa) THEN pb ELSE pa
        s == IF IsSigned(pa) THEN pa ELSE pb
    IN  IF pa = pb THEN pa
        ELSE IF IsSigned(pa) = IsSigned(pb)
             THEN (IF Rank(pa) >= Rank(pb) THEN pa ELSE pb)
        ELSE IF Rank(u) >= Rank(s) THEN u
        ELSE IF MaxOf(u) <= MaxOf(s) THEN s
        ELSE MakeUnsigned(s)

\* The state of the parts of the header a specification does not exercise.
TupleIdle == tup = <<>> /\ arity = 0 /\ used = [op |-> "none"]

RemoveIdle ==
    /\ cont = <<>> /\ pred = {} /\ rit = 0 /\ pc = "idle"
    /\ evals = <<>> /\ orig = <<>>

StringIdle ==
    /\ ss = <<>> /\ streamed = <<>> /\ str = [made |-> FALSE]
    /\ tmp = [made |-> FALSE] /\ cptr = "none" /\ seen = [kind |-> "none"]

RangeIdle ==
    /\ args = [form |-> "none"]
    /\ build = "unbuilt"
    /\ rng = [kind |-> "none"]
    /\ out = [kind |-> "none"]
    /\ cur = <<>>

\* A build of the program: whether BOOST_ASSERT is compiled in, and what a
\* signed overflow (undefined behaviour) produces: the wrapped value, or the
\* value of the operation carried out in a full-width register.
Builds == {"debug", "release_wrap", "release_wide"}

AssertsOn(b) == b = "debug"

\* The value of an arithmetic operation carried out in type t whose
\* mathematical result is v.
Arith(t, v, b) ==
    IF ~IsSigned(t) \/ Fits(t, v) THEN Convert(t, v)
    ELSE IF b = "release_wide" THEN Convert(PtrdiffT, v)
    ELSE Convert(t, v)

\* C++ integer division and remainder truncate towards zero.
Abs(x) == IF x < 0 THEN -x ELSE x

TruncDiv(a, b) ==
    LET q == Abs(a) \div Abs(b)
    IN  IF (a < 0) = (b < 0) THEN q ELSE -q

TruncMod(a, b) == a - b * TruncDiv(a, b)

(***************************************************************************)
(* range() and boost::irange.                                              *)
(***************************************************************************)
NoRange ==
    [kind |-> "none", D |-> "int", first |-> 0, last |-> 0,
     step_size |-> 0, num_steps |-> 0]

\* A failed BOOST_ASSERT: the call aborts and returns no range.
Aborted(D, first, last) ==
    [kind |-> "abort", D |-> D, first |-> first, last |-> last,
     step_size |-> 0, num_steps |-> 0]

\* boost::irange(first, last): the range of integer_iterator<Integer> from
\* first to last.
irange(D, first, last, b) ==
    IF AssertsOn(b) /\ ~(first <= last) THEN Aborted(D, first, last)
    ELSE [kind |-> "plain", D |-> D, first |-> first, last |-> last,
          step_size |-> 1, num_steps |-> 0]

\* step_size >= 0 ? step_size : -step_size, in the step's promoted type.
AbsStepKeepsSign(step_size, b) == step_size

AbsStep(step_size, b) ==
    IF step_size >= 0 THEN step_size
    ELSE Arith(Promote(StepT), -step_size, b)

\* ((l - f) % sz ? 1 : 0): one more step when the step size does not divide
\* the distance.
RoundUpNever(rem) == 0

RoundUp(rem) == IF rem # 0 THEN 1 ELSE 0

\* boost::irange(first, last, step_size): the range of
\* integer_iterator_with_step<Integer> from step 0 to step num_steps.
irange_step(D, first, last, step_size, b) ==
    LET P == Promote(D)
        sz == Convert(PtrdiffT, AbsStep(step_size, b))
        l == IF step_size >= 0 THEN last ELSE first
        f == IF step_size >= 0 THEN first ELSE last
        diff == Arith(P, l - f, b)
        Q == UsualArithmetic(P, PtrdiffT)
        dq == Convert(Q, diff)
        sq == Convert(Q, sz)
        quot == Arith(Q, TruncDiv(dq, sq), b)
        rem == Arith(Q, TruncMod(dq, sq), b)
        num_steps == Convert(PtrdiffT, Arith(Q, quot + RoundUp(rem), b))
        ordered == IF step_size > 0 THEN last >= first ELSE last <= first
    IN  IF AssertsOn(b) /\ (~ordered \/ ~(num_steps >= 0))
        THEN Aborted(D, first, last)
        ELSE [kind |-> "strided", D |-> D, first |-> first, last |-> last,
              step_size |-> Convert(D, step_size), num_steps |-> num_steps]

\* std::decay_t<decltype(true ? start : end)>: the operands' own type when
\* they have the same type, the usual arithmetic conversions otherwise.
CommonTypeOfStart(T, U) == T

CommonType(T, U) == IF T = U THEN T ELSE UsualArithmetic(T, U)

\* range(start, end, step): boost::irange<D>(start, end, step), both
\* endpoints converted to D at the call.
range(T, start, U, end, step, b) ==
    LET D == CommonType(T, U)
    IN  irange_step(D, Convert(D, start), Convert(D, end), step, b)

\* range(end): boost::irange(T{0}, end).
range_end_from_one(T, end, b) == irange(T, Convert(T, 1), end, b)

range_end(T, end, b) == irange(T, 0, end, b)

(***************************************************************************)
(* Iterating a range: for(auto i : r).                                     *)
(***************************************************************************)
NoOutput == [kind |-> "none", seq |-> <<>>]

\* integer_iterator_with_step::dereference: m_first + (m_step * m_step_size).
dereference(r, m_step, b) ==
    LET P == Promote(r.D)
        M == UsualArithmetic(PtrdiffT, P)
        prod == Arith(M, Convert(M, m_step) * Convert(M, r.step_size), b)
        S == UsualArithmetic(P, M)
        sum == Arith(S, Convert(S, r.first) + Convert(S, prod), b)
    IN  Convert(r.D, sum)

\* iterator_range::begin() and end(): copies of the two stored iterators, an
\* iterator being its m_step (strided) or its m_value (plain).
begin_it(r) == IF r.kind = "strided" THEN 0 ELSE r.first

end_it(r) == IF r.kind = "strided" THEN r.num_steps ELSE r.last

\* operator*: the iterator's value.
deref(r, it, b) == IF r.kind = "strided" THEN dereference(r, it, b) ELSE it

\* operator++: ++m_step in std::ptrdiff_t, ++m_value in the element type.
increment(r, it) ==
    IF r.kind = "strided" THEN it + 1 ELSE Convert(r.D, it + 1)

\* ++ at the maximum of a signed type of at least int's rank overflows.
IncrementOverflows(r, it) ==
    LET t == IF r.kind = "strided" THEN PtrdiffT ELSE r.D
    IN  IsSigned(t) /\ Rank(t) >= 2 /\ it = MaxOf(t)

\* The values a range-based for loop over r visits, from the iterator first
\* until the iterator equals end(), or until ++ overflows.
WalkSeq(r, first, b) ==
    LET visit[it \in Int] ==
            IF it = end_it(r) THEN <<>>
            ELSE IF IncrementOverflows(r, it) THEN <<deref(r, it, b)>>
            ELSE <<deref(r, it, b)>> \o visit[increment(r, it)]
    IN  visit[first]

\* How that loop ends: at end(), or in the undefined behaviour of an
\* overflowing ++.
WalkEnd(r, first) ==
    LET visit[it \in Int] ==
            IF it = end_it(r) THEN "end"
            ELSE IF IncrementOverflows(r, it) THEN "undefined"
            ELSE visit[increment(r, it)]
    IN  visit[first]

Walk(r, b) ==
    [kind |-> WalkEnd(r, begin_it(r)), seq |-> WalkSeq(r, begin_it(r), b)]

(***************************************************************************)
(* The calls of range() and the loops over their results.                  *)
(***************************************************************************)
\* How far from a type's minimum, from zero and from its maximum the
\* arguments of a call are taken.
Near == 2
\* The largest step size besides the extremes of the step's type.
MaxStep == 3

\* The argument values of type t: all those within Near of the type's
\* minimum, of zero or of the type's maximum.
ArgValues(t) ==
    {v \in ValuesOf(t) :
        \/ v - MinOf(t) <= Near
        \/ Abs(v) <= Near
        \/ MaxOf(t) - v <= Near}

StepValues ==
    ({MinOf(StepT), MaxOf(StepT)} \cup
     {v \in ValuesOf(StepT) : Abs(v) <= MaxStep}) \ {0}

TypedValues == UNION {{[type |-> t, val |-> v] : v \in ArgValues(t)} : t \in Types}

Calls3 ==
    {[form |-> "range3", T |-> s.type, start |-> s.val,
      U |-> e.type, end |-> e.val, step |-> st] :
        s \in TypedValues, e \in TypedValues, st \in StepValues}

Calls1 ==
    {[form |-> "range1", T |-> e.type, start |-> 0,
      U |-> e.type, end |-> e.val, step |-> 1] : e \in TypedValues}

\* The loops that may run over one range object: two, interleaved.
Loops == {1, 2}

IdleLoop == [state |-> "idle", it |-> 0, seq |-> <<>>]

NoLoops == [c \in Loops |-> IdleLoop]

Init ==
    /\ args \in Calls3 \cup Calls1
    /\ build = "unbuilt"
    /\ rng = NoRange
    /\ out = NoOutput
    /\ cur = NoLoops
    /\ TupleIdle /\ RemoveIdle /\ StringIdle

CallRange3 ==
    /\ args.form = "range3"
    /\ rng.kind = "none"
    /\ \E b \in Builds :
         /\ build' = b
         /\ rng' = range(args.T, args.start, args.U, args.end, args.step, b)
    /\ UNCHANGED <<args, out, cur, notRange>>

CallRange1 ==
    /\ args.form = "range1"
    /\ rng.kind = "none"
    /\ \E b \in Builds :
         /\ build' = b
         /\ rng' = range_end(args.U, args.end, b)
    /\ UNCHANGED <<args, out, cur, notRange>>

Iterate ==
    /\ rng.kind \in {"strided", "plain"}
    /\ out.kind = "none"
    /\ out' = Walk(rng, build)
    /\ UNCHANGED <<args, build, rng, cur, notRange>>

Next == CallRange3 \/ CallRange1 \/ Iterate

Spec == Init /\ [][Next]_vars

(***************************************************************************)
(* Loops over one range object, step by step and interleaved.              *)
(***************************************************************************)
\* How far from zero the endpoints of the iterated ranges are taken.
IterSpan == 2

IterCalls ==
    {c \in Calls3 \cup Calls1 :
        /\ c.T = c.U
        /\ Abs(c.start) <= IterSpan /\ Abs(c.end) <= IterSpan
        /\ Abs(c.step) <= MaxStep}

\* The range object a call returns.
Construct(c, b) ==
    IF c.form = "range3" THEN range(c.T, c.start, c.U, c.end, c.step, b)
    ELSE range_end(c.U, c.end, b)

\* What boost::irange asserts of its arguments: the endpoints are ordered
\* the way the step goes, and the number of steps is not negative.
WellFormed(c, r) ==
    \/ r.kind = "plain" /\ r.first <= r.last
    \/ /\ r.kind = "strided"
       /\ IF c.step > 0 THEN r.last >= r.first ELSE r.last <= r.first
       /\ r.num_steps >= 0

IterInit ==
    /\ args \in IterCalls
    /\ build \in Builds
    /\ rng = Construct(args, build)
    /\ WellFormed(args, rng)
    /\ out = NoOutput
    /\ cur = NoLoops
    /\ TupleIdle /\ RemoveIdle /\ StringIdle

\* ++it on the loop's own copy of the iterator: the range object is not
\* touched.
AdvanceConsuming(r, it) ==
    [rng |-> [r EXCEPT !.first = Convert(r.D, r.first + r.step_size)],
     it |-> increment(r, it)]

Advance(r, it) == [rng |-> r, it |-> increment(r, it)]

\* for(auto it = r.begin(); ...: a loop starts, or starts again.
LoopBegin(c) ==
    /\ cur' = [cur EXCEPT ![c] = [state |-> "running", it |-> begin_it(rng),
                                  seq |-> <<>>]]
    /\ UNCHANGED <<args, build, rng, out, notRange>>

\* One turn of a loop: it != r.end(), the body reads *it, then ++it.
LoopStep(c) ==
    /\ cur[c].state = "running"
    /\ IF cur[c].it = end_it(rng)
       THEN /\ cur' = [cur EXCEPT ![c].state = "done"]
            /\ rng' = rng
       ELSE LET a == Advance(rng, cur[c].it)
            IN  /\ cur' = [cur EXCEPT
                             ![c].seq = Append(@, deref(rng, cur[c].it, build)),
                             ![c].it = a.it]
                /\ rng' = a.rng
    /\ UNCHANGED <<args, build, out, notRange>>

IterNext == \E c \in Loops : LoopBegin(c) \/ LoopStep(c)

SpecIter == IterInit /\ [][IterNext]_vars

(***************************************************************************)
(* Properties of range().                                                  *)
(***************************************************************************)
\* start, start + step, ... below end, ascending.
Ascending(start, end, step) ==
    LET K == {k \in 0 .. (end - start) : start + k * step < end}
    IN  [i \in 1 .. Cardinality(K) |-> start + (i - 1) * step]

\* start, start + step, ... above end, descending (step negative).
Descending(start, end, step) ==
    LET K == {k \in 0 .. (start - end) : start + k * step > end}
    IN  [i \in 1 .. Cardinality(K) |-> start + (i - 1) * step]

Called3 == args.form = "range3" /\ rng.kind # "none"

Called1 == args.form = "range1" /\ rng.kind # "none"

\* The call returned a range and a loop over it, once run, visits seq and ends.
Yields(kind, seq) ==
    /\ rng.kind = kind
    /\ out.kind # "none" => out = [kind |-> "end", seq |-> seq]

\* Both endpoints kept their values in the element type.
EndpointsKept == rng.first = args.start /\ rng.last = args.end

C3_SameAsRangeFromZero ==
    (Called1 /\ args.end >= 0) =>
        LET r3 == range(args.U, 0, args.U, args.end, 1, build)
        IN  /\ Yields("plain", Ascending(0, args.end, 1))
            /\ r3.kind = "strided"
            /\ out.kind # "none" => out = Walk(r3, build)

\* C3 amended: the same, for every end with 0 <= end <= PTRDIFF_MAX.
C3_SameAsRangeFromZeroUpToPtrdiffMax ==
    (Called1 /\ args.end >= 0 /\ args.end <= MaxOf(PtrdiffT)) =>
        LET r3 == range(args.U, 0, args.U, args.end, 1, build)
        IN  /\ Yields("plain", Ascending(0, args.end, 1))
            /\ r3.kind = "strided"
            /\ out.kind # "none" => out = Walk(r3, build)

C3_Witness ==
    /\ Called1 /\ args.end >= 2 /\ args.end <= MaxOf(PtrdiffT)
    /\ out.kind = "end" /\ Len(out.seq) = args.end

\* C10 as stated: for all start >= end of a signed common type and step <= -1,
\* range(start, end, step) yields exactly start + k*step above end, descending.
C10_DescendingAlways ==
    (Called3 /\ IsSigned(rng.D) /\ args.start >= args.end /\ args.step <= -1)
        => Yields("strided", Descending(args.start, args.end, args.step))

\* C10 amended: the same, for calls whose -step is representable in the step's
\* type and whose distance start - end is representable in D after integer
\* promotion.
C10_DescendingWhenRepresentable ==
    (/\ Called3 /\ IsSigned(rng.D) /\ args.start >= args.end /\ args.step <= -1
     /\ Fits(Promote(StepT), -args.step)
     /\ Fits(Promote(rng.D), args.start - args.end))
        => Yields("strided", Descending(args.start, args.end, args.step))

C10_Witness ==
    /\ Called3 /\ IsSigned(rng.D) /\ args.start > args.end /\ args.step <= -2
    /\ Fits(Promote(StepT), -args.step)
    /\ Fits(Promote(rng.D), args.start - args.end)
    /\ out.kind = "end" /\ Len(out.seq) >= 2

\* C4: iterating a range object leaves it unchanged, and every complete or
\* partial loop over it, in any interleaving, visits the same values: a
\* finished loop visited the whole sequence, a running one a prefix of it.
C4_Restartable ==
    /\ rng = Construct(args, build)
    /\ \E full \in {Walk(Construct(args, build), build).seq} :
          \A c \in Loops :
              /\ Len(cur[c].seq) <= Len(full)
              /\ cur[c].seq = SubSeq(full, 1, Len(cur[c].seq))
              /\ cur[c].state = "done" => cur[c].seq = full

C4_Witness ==
    /\ cur[1].state = "done" /\ Len(cur[1].seq) >= 2
    /\ cur[2].state = "running" /\ Len(cur[2].seq) = 1

(***************************************************************************)
(* boost cons tuples and the std:: shims for them.                         *)
(***************************************************************************)
\* The largest number of elements of a tuple.
MaxArity == 3
\* The largest value of an element.
MaxElem == 1

ElemTypes == {"int", "char"}

Elems == {[type |-> ty, val |-> v] : ty \in ElemTypes, v \in 0 .. MaxElem}

\* boost::tuples::null_type, the end of a chain, and cons<T, Tail>, a cell of
\* a head element and the rest of the chain.
null_type == <<>>

cons(head, tail) == <<head, tail>>

\* A tuple of the given elements: one cons cell an element.
RECURSIVE make_tuple(_)
make_tuple(elems) ==
    IF elems = <<>> THEN null_type
    ELSE cons(Head(elems), make_tuple(Tail(elems)))

\* The type of a chain: the chain of its elements' types.
RECURSIVE TypeOf(_)
TypeOf(c) ==
    IF c = null_type THEN null_type ELSE cons(c[1].type, TypeOf(c[2]))

\* boost::tuples::length<cons<T, Tail>>::value: 1 + the length of Tail.
RECURSIVE boost_length(_)
boost_length(ty) == IF ty = null_type THEN 0 ELSE 1 + boost_length(ty[2])

\* boost::tuples::element<N, cons<T, Tail>>::type: T for N = 0, else the
\* element N-1 of Tail.
RECURSIVE boost_element(_, _)
boost_element(N, ty) == IF N = 0 THEN ty[1] ELSE boost_element(N - 1, ty[2])

\* std::tuple_size<cons<T, Tail>>::value.
std_tuple_size_of_tail(ty) == boost_length(ty[2])

std_tuple_size(ty) == boost_length(ty)

\* std::tuple_element<N, cons<T, Tail>>::type, N rebased to int.
std_tuple_element(N, ty) == boost_element(N, ty)

\* The element N of a chain, and the chain with its element N replaced.
RECURSIVE ElementAt(_, _)
ElementAt(c, N) == IF N = 0 THEN c[1] ELSE ElementAt(c[2], N - 1)

RECURSIVE WithElement(_, _, _)
WithElement(c, N, e) ==
    IF N = 0 THEN cons(e, c[2]) ELSE cons(c[1], WithElement(c[2], N - 1, e))

\* An expression naming a tuple object: the object, its value category and
\* whether it is const.
TupleExpr(obj, category, const) ==
    [obj |-> obj, category |-> category, const |-> const]

IllFormed ==
    [kind |-> "ill_formed", obj |-> "none", index |-> 0,
     category |-> "none", const |-> FALSE, type |-> "none"]

\* boost::get<N>(c): a reference to element N of the object c names; const
\* when c is const or an rvalue, which only get(const cons&) accepts.
boost_get(N, c) ==
    [kind |-> "ref", obj |-> c.obj, index |-> N, category |-> "lvalue",
     const |-> (c.const \/ c.category = "rvalue"),
     type |-> boost_element(N, TypeOf(tup))]

\* std::forward(t), called with no template argument: std::forward's
\* parameter does not let T be deduced, so no call of it is well formed.
std_forward(templateArg, t) ==
    IF templateArg = "deduced" THEN IllFormed
    ELSE [kind |-> "expr", obj |-> t.obj, category |-> "rvalue",
          const |-> t.const]

\* return e; from a function declared to return a reference of the given
\* category and constness: the reference binds, or the function is ill formed.
ReturnAs(category, const, type, e) ==
    IF e.kind # "ref" THEN IllFormed
    ELSE IF e.const /\ ~const THEN IllFormed
    ELSE IF category = "rvalue" /\ e.category = "lvalue" THEN IllFormed
    ELSE IF e.type # type THEN IllFormed
    ELSE [e EXCEPT !.category = category, !.const = const]

\* The four overloads of std::get<N>, chosen by the category and constness
\* of the argument.
Overloads == {"lvalue", "const_lvalue", "rvalue", "const_rvalue"}

DeclaredCategory(o) == IF o \in {"lvalue", "const_lvalue"} THEN "lvalue" ELSE "rvalue"

DeclaredConst(o) == o \in {"const_lvalue", "const_rvalue"}

\* std::get<N>(t) on a mutable or const lvalue: return boost::get<N>(t).
std_get_lvalue_of_copy(o, N, obj) ==
    ReturnAs("lvalue", DeclaredConst(o), std_tuple_element(N, TypeOf(tup)),
             boost_get(N, TupleExpr("copy", "lvalue", DeclaredConst(o))))

std_get_lvalue(o, N, obj) ==
    ReturnAs("lvalue", DeclaredConst(o), std_tuple_element(N, TypeOf(tup)),
             boost_get(N, TupleExpr(obj, "lvalue", DeclaredConst(o))))

\* std::get<N>(t) on a mutable or const rvalue:
\* return boost::get<N>(std::forward(t)).
std_get_rvalue(o, N, obj) ==
    LET f == std_forward("deduced", TupleExpr(obj, "lvalue", DeclaredConst(o)))
    IN  IF f.kind # "expr" THEN IllFormed
        ELSE ReturnAs("rvalue", DeclaredConst(o),
                      std_tuple_element(N, TypeOf(tup)),
                      boost_get(N, TupleExpr(f.obj, f.category, f.const)))

std_get(o, N, obj) ==
    IF o \in {"lvalue", "const_lvalue"} THEN std_get_lvalue(o, N, obj)
    ELSE std_get_rvalue(o, N, obj)

\* A write through a reference: it reaches t when the reference is to an
\* element of t, and is lost when it is to an element of a copy.
Store(c, ref, e) ==
    IF ref.kind = "ref" /\ ref.obj = "t" THEN WithElement(c, ref.index, e)
    ELSE c

TupleSeqs == UNION {[1 .. n -> Elems] : n \in 1 .. MaxArity}

TupleInit ==
    /\ \E elems \in TupleSeqs :
         /\ tup = make_tuple(elems)
         /\ arity = Len(elems)
    /\ used = [op |-> "none"]
    /\ RangeIdle /\ RemoveIdle /\ StringIdle

\* std::tuple_size<decltype(t)>::value
QuerySize ==
    /\ used' = [op |-> "size", value |-> std_tuple_size(TypeOf(tup))]
    /\ UNCHANGED <<tup, arity, notTuple>>

\* std::get<N>(t), t given as a mutable or const lvalue or rvalue.
CallGet ==
    /\ \E o \in Overloads, N \in 0 .. arity - 1 :
         used' = [op |-> "get", overload |-> o, N |-> N,
                  result |-> std_get(o, N, "t")]
    /\ UNCHANGED <<tup, arity, notTuple>>

\* std::get<N>(t) = v, t a mutable lvalue.
WriteThrough ==
    /\ \E N \in 0 .. arity - 1, v \in 0 .. MaxElem :
         LET ref == std_get("lvalue", N, "t")
             e == [type |-> ElementAt(tup, N).type, val |-> v]
         IN  /\ tup' = Store(tup, ref, e)
             /\ used' = [op |-> "write", N |-> N, value |-> e]
    /\ UNCHANGED <<arity, notTuple>>

TupleNext == QuerySize \/ CallGet \/ WriteThrough

SpecTuple == TupleInit /\ [][TupleNext]_vars

\* C5: std::tuple_size of a tuple's type is its number of elements, and
\* std::get<i> on a mutable or const lvalue refers to the element that
\* boost::get<i> refers to.
C5_SizeAndLvalueGetAgreeWithBoost ==
    /\ used.op = "size" => used.value = arity
    /\ (used.op = "get" /\ used.overload \in {"lvalue", "const_lvalue"}) =>
         LET b == boost_get(used.N, TupleExpr("t", "lvalue",
                                              DeclaredConst(used.overload)))
         IN  /\ used.result.kind = "ref"
             /\ used.result.obj = b.obj /\ used.result.index = b.index
             /\ ElementAt(tup, used.result.index) = ElementAt(tup, b.index)

C5_Witness ==
    /\ arity = 3 /\ used.op = "get" /\ used.overload = "const_lvalue"
    /\ used.N = 2 /\ used.result.kind = "ref"

\* C6: a write through std::get<i>(t), t a mutable lvalue, is then read by
\* boost::get<i>(t), and leaves every other element of t as it was.
C6_WriteThroughReachesTuple ==
    [][used'.op = "write" =>
         /\ ElementAt(tup', boost_get(used'.N,
                TupleExpr("t", "lvalue", FALSE)).index) = used'.value
         /\ \A j \in 0 .. arity - 1 :
              j # used'.N => ElementAt(tup', j) = ElementAt(tup, j)]_vars

C6_Witness ==
    /\ arity >= 2 /\ used.op = "write" /\ used.N = 1
    /\ tup # make_tuple([i \in 1 .. arity |-> [type |-> "int", val |-> 0]])
    /\ ElementAt(tup, 0) = [type |-> "int", val |-> 0]
    /\ ElementAt(tup, 1) = [type |-> "int", val |-> 1]

\* C7 as stated: each of the four std::get<N> overloads returns a reference
\* of its declared category to element N of the tuple it was given.
C7_AllOverloadsDelegate ==
    used.op = "get" =>
        /\ used.result.kind = "ref"
        /\ used.result.obj = "t" /\ used.result.index = used.N
        /\ used.result.category = DeclaredCategory(used.overload)
        /\ used.result.const = DeclaredConst(used.overload)

(***************************************************************************)
(* remove_if on a container whose erase(iterator) returns the iterator to  *)
(* the next element and leaves the other iterators valid.                  *)
(***************************************************************************)
\* The largest number of elements of the container.
MaxSize == 3
\* The largest element value.
MaxValue == 2

ElemValues == 0 .. MaxValue

\* A container is the sequence of its nodes in iteration order, a node being
\* its identity and its value; an iterator is a node's identity, or End.
End == 0

Containers ==
    UNION {{[i \in 1 .. n |-> [id |-> i, val |-> vs[i]]] :
               vs \in [1 .. n -> ElemValues]} : n \in 0 .. MaxSize}

PositionOf(c, i) == CHOOSE k \in 1 .. Len(c) : c[k].id = i

\* begin(container)
begin_of(c) == IF c = <<>> THEN End ELSE c[1].id

\* ++it
next_of(c, i) ==
    LET k == PositionOf(c, i)
    IN  IF k = Len(c) THEN End ELSE c[k + 1].id

\* *it
value_of(c, i) == c[PositionOf(c, i)].val

\* container.erase(it): the container without the node, and the iterator to
\* the node that followed it.
erase_and_skip(c, i) ==
    LET k == PositionOf(c, i)
    IN  [cont |-> SubSeq(c, 1, k - 1) \o SubSeq(c, k + 1, Len(c)),
         next |-> IF k + 2 > Len(c) THEN End ELSE c[k + 2].id]

erase(c, i) ==
    LET k == PositionOf(c, i)
    IN  [cont |-> SubSeq(c, 1, k - 1) \o SubSeq(c, k + 1, Len(c)),
         next |-> next_of(c, i)]

RemoveInit ==
    /\ cont \in Containers
    /\ pred \in SUBSET ElemValues
    /\ orig = cont
    /\ rit = End
    /\ pc = "call"
    /\ evals = [i \in 1 .. Len(cont) |-> 0]
    /\ RangeIdle /\ TupleIdle /\ StringIdle

\* for(auto it = begin(container); ...
RemoveIfBegin ==
    /\ pc = "call"
    /\ rit' = begin_of(cont)
    /\ pc' = "loop"
    /\ UNCHANGED <<cont, pred, evals, orig, notRemove>>

\* One turn of the loop: it != end(container), then pred(*it) decides
\* between it = container.erase(it) and ++it.
RemoveIfTurn ==
    /\ pc = "loop"
    /\ rit # End
    /\ evals' = [evals EXCEPT ![rit] = @ + 1]
    /\ IF value_of(cont, rit) \in pred
       THEN LET e == erase(cont, rit)
            IN  cont' = e.cont /\ rit' = e.next
       ELSE cont' = cont /\ rit' = next_of(cont, rit)
    /\ UNCHANGED <<pred, pc, orig, notRemove>>

\* it == end(container): the loop ends and remove_if returns.
RemoveIfReturn ==
    /\ pc = "loop"
    /\ rit = End
    /\ pc' = "done"
    /\ UNCHANGED <<cont, pred, rit, evals, orig, notRemove>>

RemoveNext == RemoveIfBegin \/ RemoveIfTurn \/ RemoveIfReturn

SpecRemove == RemoveInit /\ [][RemoveNext]_vars

\* The call runs on: a loop that can take a turn takes it.
SpecRemoveFair == SpecRemove /\ WF_vars(RemoveNext)

Kept(n) == n.val \notin pred

\* C8: remove_if returns, and then the container holds exactly the original
\* elements pred is false of, and pred was called once on each original
\* element.
C8_RemovesExactlyTheMatching ==
    <>[](/\ pc = "done"
         /\ cont = SelectSeq(orig, Kept)
         /\ \A i \in 1 .. Len(orig) : evals[i] = 1)

C8_Witness ==
    /\ pc = "done" /\ Len(orig) = 3 /\ Len(cont) = 1
    /\ cont[1].id = 2

(***************************************************************************)
(* make_string: a string stream that converts to std::string and to        *)
(* const char*.  A text is the sequence of its characters.                 *)
(***************************************************************************)
\* The most values streamed into one make_string.
MaxStreamed == 2
\* The largest number streamed, and the smallest with the sign changed.
MaxNumber == 12

Streamables ==
    {[type |-> "int", num |-> n, text |-> <<>>] : n \in {-MaxNumber, 0, 7, MaxNumber}}
    \cup {[type |-> "chars", num |-> 0, text |-> t] : t \in {<<"a">>, <<"_", "b">>}}

DigitChar(d) == <<"0", "1", "2", "3", "4", "5", "6", "7", "8", "9">>[d + 1]

\* The decimal digits of a number that is not negative.
RECURSIVE Digits(_)
Digits(n) ==
    IF n < 10 THEN <<DigitChar(n)>>
    ELSE Digits(n \div 10) \o <<DigitChar(n % 10)>>

\* What ss << data appends: the digits of a number, after its sign, and the
\* characters of a text.
Format(x) ==
    IF x.type = "int"
    THEN (IF x.num < 0 THEN <<"-">> \o Digits(-x.num) ELSE Digits(x.num))
    ELSE x.text

StringInit ==
    /\ ss = <<>>
    /\ streamed = <<>>
    /\ str = [made |-> FALSE]
    /\ tmp = [made |-> FALSE]
    /\ cptr = "none"
    /\ seen = [kind |-> "none"]
    /\ RangeIdle /\ TupleIdle /\ RemoveIdle

\* make_string::operator<<(data): ss << data.
StreamInto ==
    /\ Len(streamed) < MaxStreamed
    /\ \E x \in Streamables :
         /\ ss' = ss \o Format(x)
         /\ streamed' = Append(streamed, x)
    /\ UNCHANGED <<str, tmp, cptr, seen, notString>>

\* make_string::operator std::string(): a copy of the stream's text.
ConvertToString ==
    /\ str' = [made |-> TRUE, text |-> ss, count |-> Len(streamed)]
    /\ UNCHANGED <<ss, streamed, tmp, cptr, seen, notString>>

\* make_string::operator const char*(): ss.str() makes a temporary string,
\* c_str() points into it, and the temporary is destroyed as the operator
\* returns.
ConvertToCString ==
    /\ tmp' = [made |-> TRUE, text |-> ss, count |-> Len(streamed),
               alive |-> FALSE]
    /\ cptr' = "tmp"
    /\ seen' = [kind |-> "none"]
    /\ UNCHANGED <<ss, streamed, str, notString>>

\* The caller reads the characters the pointer points to.  Reading a
\* destroyed string is undefined: the text may still be there, or the
\* storage may hold something else.
ReadCString ==
    /\ cptr = "tmp"
    /\ seen' \in
         IF tmp.alive THEN {[kind |-> "text", text |-> tmp.text]}
         ELSE {[kind |-> "text", text |-> tmp.text],
               [kind |-> "garbage", text |-> <<>>]}
    /\ UNCHANGED <<ss, streamed, str, tmp, cptr, notString>>

StringNext == StreamInto \/ ConvertToString \/ ConvertToCString \/ ReadCString

SpecString == StringInit /\ [][StringNext]_vars

\* The stream representations of the first n values streamed, concatenated.
RECURSIVE Concatenated(_)
Concatenated(n) ==
    IF n = 0 THEN <<>> ELSE Concatenated(n - 1) \o Format(streamed[n])

\* C9 as stated: the conversion to std::string yields the concatenation of
\* the streamed values' representations, and the pointer the conversion to
\* const char* yields points to live storage holding that text when the
\* caller reads it.
C9_UsableAsStringAndCString ==
    /\ str.made => str.text = Concatenated(str.count)
    /\ cptr = "tmp" => tmp.alive /\ tmp.text = Concatenated(tmp.count)
    /\ seen.kind # "none" =>
         seen = [kind |-> "text", text |-> Concatenated(tmp.count)]

====
